---- MODULE Spec2Model ----
(***************************************************************************)
(* Model of automation/plugins/filter/aws_filters.py: the Ansible filter   *)
(* plugin that resolves AWS "Name" tags to resource identifiers.           *)
(*                                                                         *)
(* The plugin keeps no state between calls.  The state of the model is     *)
(* the environment a call runs in (whether boto3 could be imported, what   *)
(* the cloud inventory holds, whether the describe call honours the        *)
(* tag:Name filter) and the record of the last call: its arguments, the    *)
(* describe calls it issued, the error the client raised, and how the      *)
(* call ended (a returned value or a raised exception).                    *)
(***************************************************************************)
EXTENDS Integers, Sequences, FiniteSets, TLC

VARIABLES HAS_BOTO3, filtering, directory, pc, call, fault, queries, outcome

vars == <<HAS_BOTO3, filtering, directory, pc, call, fault, queries, outcome>>

(* ------------------------------ bounds --------------------------------- *)

MaxRecords == 2     \* resources in the cloud inventory
MaxNames == 2       \* length of the names list given to get_aws_resource_ids
MaxRoutes == 2      \* length of the routes list given to resolve_route_gateway_ids

(* --------------------------- python values ----------------------------- *)

None == "None"

\* Python truthiness of an optional string: None and "" are falsy.
Truthy(x) == x # None /\ x # ""

\* dict.get(key, default)
Get(d, key, default) == IF key \in DOMAIN d THEN d[key] ELSE default

EmptyDict == [k \in {} |-> None]

RECURSIVE Join(_, _)
Join(sep, strs) ==
    IF strs = <<>> THEN ""
    ELSE IF Len(strs) = 1 THEN strs[1]
    ELSE strs[1] \o sep \o Join(sep, Tail(strs))

(* ------------------------- RESOURCE_CONFIG ----------------------------- *)

\* The keys of RESOURCE_CONFIG in definition order (dict order in Python).
ResourceTypes ==
    << "subnet", "vpc", "internet_gateway", "nat_gateway",
       "security_group", "route_table", "network_acl", "instance" >>

RESOURCE_CONFIG ==
    [t \in { ResourceTypes[i] : i \in 1..Len(ResourceTypes) } |->
        CASE t = "subnet" ->
               [service |-> "ec2", method |-> "describe_subnets",
                response_key |-> "Subnets", id_field |-> "SubnetId"]
          [] t = "vpc" ->
               [service |-> "ec2", method |-> "describe_vpcs",
                response_key |-> "Vpcs", id_field |-> "VpcId"]
          [] t = "internet_gateway" ->
               [service |-> "ec2", method |-> "describe_internet_gateways",
                response_key |-> "InternetGateways", id_field |-> "InternetGatewayId"]
          [] t = "nat_gateway" ->
               [service |-> "ec2", method |-> "describe_nat_gateways",
                response_key |-> "NatGateways", id_field |-> "NatGatewayId"]
          [] t = "security_group" ->
               [service |-> "ec2", method |-> "describe_security_groups",
                response_key |-> "SecurityGroups", id_field |-> "GroupId"]
          [] t = "route_table" ->
               [service |-> "ec2", method |-> "describe_route_tables",
                response_key |-> "RouteTables", id_field |-> "RouteTableId"]
          [] t = "network_acl" ->
               [service |-> "ec2", method |-> "describe_network_acls",
                response_key |-> "NetworkAcls", id_field |-> "NetworkAclId"]
          [] t = "instance" ->
               [service |-> "ec2", method |-> "describe_instances",
                response_key |-> "Reservations", id_field |-> "InstanceId",
                nested_key |-> "Instances"]]

\* The default of the region parameter of every filter.
DefaultRegion == "us-east-1"

(* --------------------------- exceptions -------------------------------- *)

Return(v) == [kind |-> "return", value |-> v]

Raise(exc, msg) == [kind |-> "raise", exc |-> exc, msg |-> msg]

\* raise AnsibleFilterError("boto3 is required for <filter> filter")
MissingBoto3Error(filter) ==
    Raise("AnsibleFilterError", <<"boto3 is required for ", filter, " filter">>)

\* Mutant of UnsupportedTypeError: an unknown type is treated as "not found".
UnsupportedTypeErrorAsNone(resource_type) == Return(None)

\* raise AnsibleFilterError(f"Unsupported resource type: {resource_type}. "
\*                          f"Supported types: {', '.join(RESOURCE_CONFIG.keys())}")
UnsupportedTypeError(resource_type) ==
    Raise("AnsibleFilterError",
          <<"Unsupported resource type: ", resource_type,
            ". Supported types: " \o Join(", ", ResourceTypes)>>)

\* except ClientError as e: raise AnsibleFilterError(f"AWS API error: {e}")
\* Only ClientError is caught; any other exception leaves the filter as it is.
HandleError(e) ==
    IF e.class = "ClientError"
    THEN Raise("AnsibleFilterError", <<"AWS API error: ", e.text, "">>)
    ELSE Raise(e.class, <<e.text, "", "">>)

(* --------------------- the Cloud Directory Client ---------------------- *)

\* What the client raised, if anything: no error, a botocore ClientError (an
\* error response of the service), or another exception of the client
\* library that is no ClientError (EndpointConnectionError,
\* NoCredentialsError, ... derive from BotoCoreError).
OK == [class |-> "ok", text |-> ""]

ClientErrors ==
    { [class |-> "ClientError", text |-> "AuthFailure"],
      [class |-> "EndpointConnectionError", text |-> "Could not connect"] }

\* The fault of a call: its at-th describe call raises error (at = 0: none does).
NoFault == [at |-> 0, error |-> OK]

Faults(n) == {NoFault} \cup { [at |-> k, error |-> e] : k \in 1..n, e \in ClientErrors }

ReplyFor(k, f) == IF k = f.at THEN f.error ELSE OK

Names == {"web", "web-1"}

Tag(k, v) == [Key |-> k, Value |-> v]

\* The tag sets a resource of the inventory can carry: untagged (the record
\* then has no Tags field), tagged without a Name, or tagged with a Name.
TagOptions ==
    { [has_tags |-> FALSE, tags |-> <<>>],
      [has_tags |-> TRUE, tags |-> <<Tag("Env", "web")>>],
      [has_tags |-> TRUE, tags |-> <<Tag("Env", "web-1"), Tag("Name", "web")>>],
      [has_tags |-> TRUE, tags |-> <<Tag("Name", "web-1")>>] }

\* Identifiers are assigned by the provider: unique and never empty.
Id(k) == "r-" \o ToString(k)

\* The inventories of n resources.  head marks the first resource of a
\* reservation (used by describe_instances only).
Directories(n) ==
    { [k \in 1..n |-> [id |-> Id(k), has_tags |-> t[k].has_tags,
                       tags |-> t[k].tags, head |-> h[k]]] :
        t \in [1..n -> TagOptions],
        h \in { g \in [1..n -> BOOLEAN] : n >= 1 => g[1] } }

\* The provider's view of a resource: does it carry the tag Name = v.
HasNameTag(r, v) == \E i \in DOMAIN r.tags : r.tags[i] = Tag("Name", v)

\* The tag:Name filter as the service applies it.
Passes(r, values) ==
    ~filtering \/ \E i \in DOMAIN values : HasNameTag(r, values[i])

\* A resource as the response shows it: its id under the type's id field,
\* and its tags when it has any.
Shape(config, r) ==
    IF r.has_tags
    THEN [f \in {config.id_field, "Tags"} |-> IF f = "Tags" THEN r.tags ELSE r.id]
    ELSE [f \in {config.id_field} |-> r.id]

RECURSIVE Reservations(_)
Reservations(recs) ==
    IF recs = <<>> THEN <<>>
    ELSE LET n == Len(recs)
             prev == Reservations(SubSeq(recs, 1, n - 1))
         IN  IF recs[n].head \/ prev = <<>>
             THEN Append(prev, <<recs[n]>>)
             ELSE [prev EXCEPT ![Len(prev)] = Append(@, recs[n])]

RECURSIVE MapShape(_, _)
MapShape(config, recs) ==
    IF recs = <<>> THEN <<>>
    ELSE <<Shape(config, recs[1])>> \o MapShape(config, Tail(recs))

Matching(config, recs, values) ==
    MapShape(config, SelectSeq(recs, LAMBDA r : Passes(r, values)))

\* The response of client.<method>(Filters=[{Name: tag:Name, Values: values}]).
\* For a nested type the filter is applied inside each reservation, and a
\* reservation left without instances stays in the response, empty.
Describe(config, values) ==
    IF "nested_key" \in DOMAIN config
    THEN LET rs == Reservations(directory)
         IN  [k \in {config.response_key} |->
                [i \in 1..Len(rs) |->
                    [j \in {config.nested_key} |-> Matching(config, rs[i], values)]]]
    ELSE [k \in {config.response_key} |-> Matching(config, directory, values)]

Query(config, region, values) ==
    [service |-> config.service, region_name |-> region, method |-> config.method,
     Filters |-> <<[Name |-> "tag:Name", Values |-> values]>>]

(* ------------------------- the filter functions ------------------------ *)

\* Mutant of Extend: only the first item's nested collection is taken.
ExtendFirstOnly(items, nested_key) ==
    IF items = <<>> THEN <<>> ELSE Get(items[1], nested_key, <<>>)

\* nested_resources = []; for item in resources:
\*     nested_resources.extend(item.get(config['nested_key'], []))
RECURSIVE Extend(_, _)
Extend(items, nested_key) ==
    IF items = <<>> THEN <<>>
    ELSE Get(items[1], nested_key, <<>>) \o Extend(Tail(items), nested_key)

\* resources = response.get(config['response_key'], []), unwrapped one level
\* when the type has a nested_key.
Resources(config, response) ==
    LET resources == Get(response, config.response_key, <<>>)
    IN  IF "nested_key" \in DOMAIN config
        THEN Extend(resources, config.nested_key)
        ELSE resources

\* if resources: return resources[0][config['id_field']]; return None
FirstId(config, resources) ==
    IF resources # <<>> THEN resources[1][config.id_field] ELSE None

\* get_aws_resource_id, given what its describe call raises: how the call
\* ends and the describe calls it issued.
GetAwsResourceId(name, resource_type, region, reply) ==
    IF ~HAS_BOTO3
    THEN [outcome |-> MissingBoto3Error("get_aws_resource_id"), queries |-> <<>>]
    ELSE IF resource_type \notin DOMAIN RESOURCE_CONFIG
    THEN [outcome |-> UnsupportedTypeError(resource_type), queries |-> <<>>]
    ELSE LET config == RESOURCE_CONFIG[resource_type]
             q == Query(config, region, <<name>>)
         IN  IF reply # OK
             THEN [outcome |-> HandleError(reply), queries |-> <<q>>]
             ELSE [outcome |->
                     Return(FirstId(config, Resources(config, Describe(config, <<name>>)))),
                   queries |-> <<q>>]

\* for tag in resource.get('Tags', []):
\*     if tag['Key'] == 'Name': name_to_id[tag['Value']] = ...; break
\* The index of the tag the loop stops at, 0 when it runs to the end.
NameTagIndex(tags) ==
    IF \E i \in 1..Len(tags) : tags[i].Key = "Name"
    THEN CHOOSE i \in 1..Len(tags) :
            /\ tags[i].Key = "Name"
            /\ \A j \in 1..(i - 1) : tags[j].Key # "Name"
    ELSE 0

\* name_to_id after the loop over resources: a later resource overwrites
\* the entry of an earlier one with the same Name.
RECURSIVE NameToId(_, _)
NameToId(config, resources) ==
    IF resources = <<>> THEN EmptyDict
    ELSE LET n == Len(resources)
             before == NameToId(config, SubSeq(resources, 1, n - 1))
             resource == resources[n]
             tags == Get(resource, "Tags", <<>>)
             i == NameTagIndex(tags)
         IN  IF i = 0 THEN before
             ELSE (tags[i].Value :> resource[config.id_field]) @@ before

\* Mutant of LookupAll: the comprehension without its if clause.
RECURSIVE LookupAllKeepGaps(_, _)
LookupAllKeepGaps(name_to_id, names) ==
    IF names = <<>> THEN <<>>
    ELSE <<Get(name_to_id, names[1], None)>> \o LookupAllKeepGaps(name_to_id, Tail(names))

\* [name_to_id.get(name) for name in names if name_to_id.get(name)]
RECURSIVE LookupAll(_, _)
LookupAll(name_to_id, names) ==
    IF names = <<>> THEN <<>>
    ELSE LET id == Get(name_to_id, names[1], None)
         IN  (IF Truthy(id) THEN <<id>> ELSE <<>>) \o LookupAll(name_to_id, Tail(names))

\* Mutant of GetAwsResourceIds: the resource type is checked before the
\* list of names is tested for emptiness.
GetAwsResourceIdsTypeFirst(names, resource_type, region, reply) ==
    IF ~HAS_BOTO3
    THEN [outcome |-> MissingBoto3Error("get_aws_resource_ids"), queries |-> <<>>]
    ELSE IF resource_type \notin DOMAIN RESOURCE_CONFIG
    THEN [outcome |-> UnsupportedTypeError(resource_type), queries |-> <<>>]
    ELSE IF names = <<>>
    THEN [outcome |-> Return(<<>>), queries |-> <<>>]
    ELSE LET config == RESOURCE_CONFIG[resource_type]
             q == Query(config, region, names)
         IN  IF reply # OK
             THEN [outcome |-> HandleError(reply), queries |-> <<q>>]
             ELSE LET resources == Resources(config, Describe(config, names))
                  IN  [outcome |-> Return(LookupAll(NameToId(config, resources), names)),
                       queries |-> <<q>>]

\* Mutant of GetAwsResourceIds: one describe call per name instead of one
\* for all the names.
GetAwsResourceIdsPerName(names, resource_type, region, reply) ==
    IF ~HAS_BOTO3
    THEN [outcome |-> MissingBoto3Error("get_aws_resource_ids"), queries |-> <<>>]
    ELSE IF names = <<>>
    THEN [outcome |-> Return(<<>>), queries |-> <<>>]
    ELSE IF resource_type \notin DOMAIN RESOURCE_CONFIG
    THEN [outcome |-> UnsupportedTypeError(resource_type), queries |-> <<>>]
    ELSE LET config == RESOURCE_CONFIG[resource_type]
             qs == [i \in 1..Len(names) |-> Query(config, region, <<names[i]>>)]
         IN  IF reply # OK
             THEN [outcome |-> HandleError(reply), queries |-> <<qs[1]>>]
             ELSE LET resources == Resources(config, Describe(config, names))
                  IN  [outcome |-> Return(LookupAll(NameToId(config, resources), names)),
                       queries |-> qs]

\* get_aws_resource_ids, given what its describe call raises.
GetAwsResourceIds(names, resource_type, region, reply) ==
    IF ~HAS_BOTO3
    THEN [outcome |-> MissingBoto3Error("get_aws_resource_ids"), queries |-> <<>>]
    ELSE IF names = <<>>
    THEN [outcome |-> Return(<<>>), queries |-> <<>>]
    ELSE IF resource_type \notin DOMAIN RESOURCE_CONFIG
    THEN [outcome |-> UnsupportedTypeError(resource_type), queries |-> <<>>]
    ELSE LET config == RESOURCE_CONFIG[resource_type]
             q == Query(config, region, names)
         IN  IF reply # OK
             THEN [outcome |-> HandleError(reply), queries |-> <<q>>]
             ELSE LET resources == Resources(config, Describe(config, names))
                  IN  [outcome |-> Return(LookupAll(NameToId(config, resources), names)),
                       queries |-> <<q>>]

\* if 'gateway_id' in route and route['gateway_id']
HasGateway(route) == "gateway_id" \in DOMAIN route /\ Truthy(route["gateway_id"])

\* Mutant of ResolvedRoute: the gateway_id is overwritten with whatever the
\* lookup returned, None included.
ResolvedRouteAlways(route, gateway_id) == [route EXCEPT !["gateway_id"] = gateway_id]

\* resolved_route = route.copy(); if gateway_id: resolved_route['gateway_id'] = gateway_id
ResolvedRoute(route, gateway_id) ==
    IF Truthy(gateway_id) THEN [route EXCEPT !["gateway_id"] = gateway_id] ELSE route

\* The gateway type resolve_route_gateway_ids looks names up as.
GatewayType == "internet_gateway"

\* The loop of resolve_route_gateway_ids over routes[i..], with the routes
\* resolved and the describe calls issued so far; f tells which describe
\* call raises.  An exception of get_aws_resource_id ends the loop.
RECURSIVE RouteLoop(_, _, _, _, _, _)
RouteLoop(routes, i, region, f, resolved_routes, issued) ==
    IF i > Len(routes)
    THEN [outcome |-> Return(resolved_routes), queries |-> issued]
    ELSE LET route == routes[i]
         IN  IF HasGateway(route)
             THEN LET r == GetAwsResourceId(route["gateway_id"], GatewayType, region,
                                            ReplyFor(Len(issued) + 1, f))
                  IN  IF r.outcome.kind = "raise"
                      THEN [outcome |-> r.outcome, queries |-> issued \o r.queries]
                      ELSE RouteLoop(routes, i + 1, region, f,
                                     Append(resolved_routes,
                                            ResolvedRoute(route, r.outcome.value)),
                                     issued \o r.queries)
             ELSE RouteLoop(routes, i + 1, region, f,
                            Append(resolved_routes, route), issued)

ResolveRouteGatewayIds(routes, region, f) ==
    IF routes = <<>>
    THEN [outcome |-> Return(<<>>), queries |-> <<>>]
    ELSE RouteLoop(routes, 1, region, f, <<>>, <<>>)

\* Legacy wrappers.
GetSubnetIdByName(subnet_name, region, reply) ==
    GetAwsResourceId(subnet_name, "subnet", region, reply)

GetSubnetIdsByNames(subnet_names, region, reply) ==
    GetAwsResourceIds(subnet_names, "subnet", region, reply)

(* ------------------------------ inputs --------------------------------- *)

\* Resource types a caller can pass: every key of RESOURCE_CONFIG and one
\* that is no key.
TypeInputs == DOMAIN RESOURCE_CONFIG \cup {"load_balancer"}

SeqsUpTo(S, n) == UNION { [1..k -> S] : k \in 0..n }

\* A route: a dict with a destination and, possibly, a gateway_id that is
\* empty or names a gateway.
RouteInputs ==
    { [destination_cidr_block |-> "0.0.0.0/0"] }
    \cup { [destination_cidr_block |-> "0.0.0.0/0", gateway_id |-> g] :
             g \in Names \cup {""} }

(* ------------------------------ actions -------------------------------- *)

NoCall == [op |-> "none"]

NoOutcome == [kind |-> "none"]

Init ==
    /\ (HAS_BOTO3 = TRUE \/ HAS_BOTO3 = FALSE)
    /\ (filtering = TRUE \/ filtering = FALSE)
    /\ directory \in UNION { Directories(n) : n \in 0..MaxRecords }
    /\ pc = "idle"
    /\ call = NoCall
    /\ fault = NoFault
    /\ queries = <<>>
    /\ outcome = NoOutcome

Finish(c, f, r) ==
    /\ pc' = "done"
    /\ call' = c
    /\ fault' = f
    /\ queries' = r.queries
    /\ outcome' = r.outcome
    /\ UNCHANGED <<HAS_BOTO3, filtering, directory>>

CallGetAwsResourceId ==
    /\ pc = "idle"
    /\ \E name \in Names, resource_type \in TypeInputs, f \in Faults(1) :
         Finish([op |-> "get_aws_resource_id", name |-> name,
                 resource_type |-> resource_type], f,
                GetAwsResourceId(name, resource_type, DefaultRegion, ReplyFor(1, f)))

CallGetAwsResourceIds ==
    /\ pc = "idle"
    /\ \E names \in SeqsUpTo(Names, MaxNames), resource_type \in TypeInputs,
          f \in Faults(1) :
         Finish([op |-> "get_aws_resource_ids", names |-> names,
                 resource_type |-> resource_type], f,
                GetAwsResourceIds(names, resource_type, DefaultRegion, ReplyFor(1, f)))

CallResolveRouteGatewayIds ==
    /\ pc = "idle"
    /\ \E routes \in SeqsUpTo(RouteInputs, MaxRoutes) :
         \E f \in Faults(Len(routes)) :
            Finish([op |-> "resolve_route_gateway_ids", routes |-> routes], f,
                   ResolveRouteGatewayIds(routes, DefaultRegion, f))

CallGetSubnetIdByName ==
    /\ pc = "idle"
    /\ \E name \in Names, f \in Faults(1) :
         Finish([op |-> "get_subnet_id_by_name", name |-> name], f,
                GetSubnetIdByName(name, DefaultRegion, ReplyFor(1, f)))

CallGetSubnetIdsByNames ==
    /\ pc = "idle"
    /\ \E names \in SeqsUpTo(Names, MaxNames), f \in Faults(1) :
         Finish([op |-> "get_subnet_ids_by_names", names |-> names], f,
                GetSubnetIdsByNames(names, DefaultRegion, ReplyFor(1, f)))

\* The template engine takes the result; nothing of the call is kept.
Done ==
    /\ pc = "done"
    /\ pc' = "idle"
    /\ call' = NoCall
    /\ fault' = NoFault
    /\ queries' = <<>>
    /\ outcome' = NoOutcome
    /\ UNCHANGED <<HAS_BOTO3, filtering, directory>>

Next ==
    \/ CallGetAwsResourceId
    \/ CallGetAwsResourceIds
    \/ CallResolveRouteGatewayIds
    \/ CallGetSubnetIdByName
    \/ CallGetSubnetIdsByNames
    \/ Done

Spec == Init /\ [][Next]_vars

(* ------------------------ vocabulary of the claims --------------------- *)

Recognized(resource_type) == resource_type \in DOMAIN RESOURCE_CONFIG

\* The error taxonomy, read off how a call ended.
UnsupportedResourceType(o) ==
    /\ o.kind = "raise"
    /\ o.exc = "AnsibleFilterError"
    /\ o.msg[1] = "Unsupported resource type: "

MissingDependency(o) ==
    /\ o.kind = "raise"
    /\ o.exc = "AnsibleFilterError"
    /\ o.msg[1] = "boto3 is required for "

DirectoryQueryFailed(o, text) ==
    /\ o.kind = "raise"
    /\ o.exc = "AnsibleFilterError"
    /\ o.msg[1] = "AWS API error: "
    /\ o.msg[2] = text

\* The identifiers of the resources of the inventory tagged Name = n.
IdsNamed(n) ==
    { directory[k].id : k \in { j \in DOMAIN directory : HasNameTag(directory[j], n) } }

\* The resources a describe call for values answers with, in inventory order.
Candidates(values) == SelectSeq(directory, LAMBDA r : Passes(r, values))

\* A describe call of the last call raised.
QueryFailed == pc = "done" /\ fault.at \in 1..Len(queries)

\* The last call got an answer to every describe call it issued.
QueriesAnswered == pc = "done" /\ queries # <<>> /\ fault.at \notin 1..Len(queries)

ResolveOne == pc = "done" /\ call.op = "get_aws_resource_id"

ResolveMany == pc = "done" /\ call.op = "get_aws_resource_ids"

ResolveRoutes == pc = "done" /\ call.op = "resolve_route_gateway_ids"

(* ------------------------------- claims -------------------------------- *)

\* C1: when get_aws_resource_ids returns for a non-empty list of names, its
\* result holds, for each input name that some resource of the inventory is
\* tagged with, in input order, the identifier of a resource tagged with that
\* name, and nothing else: names without a match are dropped, the result is
\* never longer than the input and holds no None.
C1_ResolveManyDropsUnmatched ==
    (ResolveMany /\ call.names # <<>> /\ outcome.kind = "return") =>
        LET matched == SelectSeq(call.names, LAMBDA n : IdsNamed(n) # {})
            ids == outcome.value
        IN  /\ Len(ids) = Len(matched)
            /\ Len(ids) <= Len(call.names)
            /\ \A i \in 1..Len(ids) : ids[i] # None /\ ids[i] \in IdsNamed(matched[i])

\* C1 witness: two different names were asked for, only the second has a
\* resource, and the result is the one identifier of that resource.
C1_Witness ==
    /\ ResolveMany
    /\ outcome.kind = "return"
    /\ Len(call.names) = 2
    /\ IdsNamed(call.names[1]) = {}
    /\ IdsNamed(call.names[2]) # {}
    /\ Len(outcome.value) = 1
    /\ outcome.value[1] \in IdsNamed(call.names[2])

\* C2: when resolve_route_gateway_ids returns, the result has the length and
\* order of the input and entry i has the fields of input entry i with the
\* same values, except that gateway_id is the identifier get_aws_resource_id
\* finds for it as an internet gateway when the entry has a non-empty
\* gateway_id and that lookup finds one; every other entry equals its input.
C2_RoutesResolvedInPlace ==
    (ResolveRoutes /\ outcome.kind = "return") =>
        /\ Len(outcome.value) = Len(call.routes)
        /\ \A i \in 1..Len(call.routes) :
             LET route == call.routes[i]
                 out == outcome.value[i]
                 named == "gateway_id" \in DOMAIN route /\ route["gateway_id"] # ""
                 id == IF named
                       THEN GetAwsResourceId(route["gateway_id"], "internet_gateway",
                                             DefaultRegion, OK).outcome.value
                       ELSE None
             IN  /\ DOMAIN out = DOMAIN route
                 /\ \A f \in DOMAIN route \ {"gateway_id"} : out[f] = route[f]
                 /\ IF named /\ id # None
                    THEN out["gateway_id"] = id
                    ELSE out = route

\* C2 witness: a returned route list in which one gateway name was replaced
\* by an identifier and another, unresolvable one was left as it was.
C2_Witness ==
    /\ ResolveRoutes
    /\ outcome.kind = "return"
    /\ \E i, j \in 1..Len(call.routes) :
         /\ "gateway_id" \in DOMAIN call.routes[i]
         /\ outcome.value[i]["gateway_id"] \in IdsNamed(call.routes[i]["gateway_id"])
         /\ "gateway_id" \in DOMAIN call.routes[j]
         /\ call.routes[j]["gateway_id"] # ""
         /\ outcome.value[j] = call.routes[j]

\* C3: every identifier get_aws_resource_id or get_aws_resource_ids returns
\* for a name belongs to a resource whose Name tag equals that name, whatever
\* the describe call answers with.
C3_ExactNameMatchOnly ==
    /\ (ResolveOne /\ outcome.kind = "return" /\ outcome.value # None) =>
           outcome.value \in IdsNamed(call.name)
    /\ (ResolveMany /\ outcome.kind = "return") =>
           \A i \in 1..Len(outcome.value) :
              \E j \in 1..Len(call.names) : outcome.value[i] \in IdsNamed(call.names[j])

\* C4 as stated: get_aws_resource_id with a resource type that is no key of
\* RESOURCE_CONFIG always fails with UnsupportedResourceType, no describe
\* call issued.
C4_UnknownTypeAlwaysUnsupported ==
    (ResolveOne /\ ~Recognized(call.resource_type)) =>
        UnsupportedResourceType(outcome) /\ queries = <<>>

\* C4 amended: get_aws_resource_id with a resource type that is no key of
\* RESOURCE_CONFIG always fails with no describe call issued: with
\* UnsupportedResourceType when boto3 is available, with MissingDependency
\* when it is not.
C4_UnknownTypeFailsBeforeQuery ==
    (ResolveOne /\ ~Recognized(call.resource_type)) =>
        /\ queries = <<>>
        /\ IF HAS_BOTO3
           THEN UnsupportedResourceType(outcome) /\ outcome.msg[2] = call.resource_type
           ELSE MissingDependency(outcome)

\* C4 witness: with boto3 available and a client that would have raised, a
\* lookup of an unknown type ended in UnsupportedResourceType.
C4_Witness ==
    /\ ResolveOne
    /\ HAS_BOTO3
    /\ ~Recognized(call.resource_type)
    /\ fault.at = 1
    /\ UnsupportedResourceType(outcome)

\* C5 as stated: get_aws_resource_ids with a resource type that is no key of
\* RESOURCE_CONFIG fails with UnsupportedResourceType for every list of
\* names, the empty list included.
C5_UnknownTypeManyAlwaysUnsupported ==
    (ResolveMany /\ ~Recognized(call.resource_type)) =>
        UnsupportedResourceType(outcome)

\* C5 amended: with boto3 available, get_aws_resource_ids with a resource
\* type that is no key of RESOURCE_CONFIG fails with UnsupportedResourceType
\* for every non-empty list of names and returns the empty list for the
\* empty list; without boto3 it fails with MissingDependency.
C5_UnknownTypeManyNonEmpty ==
    (ResolveMany /\ ~Recognized(call.resource_type)) =>
        /\ queries = <<>>
        /\ IF ~HAS_BOTO3 THEN MissingDependency(outcome)
           ELSE IF call.names = <<>> THEN outcome = Return(<<>>)
           ELSE UnsupportedResourceType(outcome)

\* C5 witness: with boto3 available, a non-empty list of names looked up
\* under an unknown type ended in UnsupportedResourceType.
C5_Witness ==
    /\ ResolveMany
    /\ HAS_BOTO3
    /\ ~Recognized(call.resource_type)
    /\ Len(call.names) = 2
    /\ UnsupportedResourceType(outcome)

\* A single describe call whose one filter is tag:Name with all the names.
OneBatchedQuery(names) ==
    /\ Len(queries) = 1
    /\ Len(queries[1].Filters) = 1
    /\ queries[1].Filters[1].Name = "tag:Name"
    /\ queries[1].Filters[1].Values = names
    /\ queries[1].method = RESOURCE_CONFIG[call.resource_type].method

\* C6 as stated: get_aws_resource_ids issues no describe call and returns
\* the empty list when the list of names is empty, and issues exactly one
\* describe call, whose filter carries all the names, when the list is
\* non-empty and the type is recognized.
C6_ZeroOrOneQuery ==
    ResolveMany =>
        /\ call.names = <<>> => (queries = <<>> /\ outcome = Return(<<>>))
        /\ (call.names # <<>> /\ Recognized(call.resource_type)) =>
               OneBatchedQuery(call.names)

\* C6 amended: with boto3 available, get_aws_resource_ids issues no describe
\* call and returns the empty list when the list of names is empty, and
\* issues exactly one describe call, whose filter carries all the names,
\* when the list is non-empty and the type is recognized; without boto3 it
\* issues no describe call and fails with MissingDependency.
C6_ZeroOrOneQueryWithBoto3 ==
    ResolveMany =>
        IF HAS_BOTO3
        THEN /\ call.names = <<>> => (queries = <<>> /\ outcome = Return(<<>>))
             /\ (call.names # <<>> /\ Recognized(call.resource_type)) =>
                    OneBatchedQuery(call.names)
        ELSE queries = <<>> /\ MissingDependency(outcome)

\* C6 witness: two names were looked up under a recognized type with one
\* describe call carrying both.
C6_Witness ==
    /\ ResolveMany
    /\ Len(call.names) = 2
    /\ call.names[1] # call.names[2]
    /\ Recognized(call.resource_type)
    /\ OneBatchedQuery(call.names)
    /\ outcome.kind = "return"

\* C7: whenever the describe call of get_aws_resource_id or
\* get_aws_resource_ids raises, the call ends in DirectoryQueryFailed
\* carrying the text of the error.
C7_QueryErrorsWrapped ==
    ((ResolveOne \/ ResolveMany) /\ QueryFailed) =>
        DirectoryQueryFailed(outcome, fault.error.text)

\* C8: when the describe call of get_aws_resource_id is answered, the call
\* returns the identifier of the first resource the answer holds (for a
\* nested type: the first of the concatenated nested collections), and
\* returns None, raising nothing, exactly when the answer holds no resource.
C8_FirstCandidateOrNone ==
    (ResolveOne /\ QueriesAnswered) =>
        LET candidates == Candidates(<<call.name>>)
        IN  /\ outcome.kind = "return"
            /\ (candidates = <<>>) <=> (outcome.value = None)
            /\ candidates # <<>> => outcome.value = candidates[1].id

\* C8 witness: an instance lookup whose first reservation holds no instance
\* after filtering returned the instance of the second reservation.
C8_Witness ==
    /\ ResolveOne
    /\ QueriesAnswered
    /\ call.resource_type = "instance"
    /\ filtering
    /\ Len(directory) = 2
    /\ directory[2].head
    /\ ~HasNameTag(directory[1], call.name)
    /\ outcome = Return(directory[2].id)

\* The describe calls a route list asks for: one per route with a non-empty
\* gateway_id, in route order, each for internet gateways.
RECURSIVE GatewayQueries(_)
GatewayQueries(routes) ==
    IF routes = <<>> THEN <<>>
    ELSE (IF "gateway_id" \in DOMAIN routes[1] /\ routes[1]["gateway_id"] # ""
          THEN <<[service |-> "ec2", region_name |-> DefaultRegion,
                  method |-> "describe_internet_gateways",
                  Filters |-> <<[Name |-> "tag:Name",
                                 Values |-> <<routes[1]["gateway_id"]>>]>>]>>
          ELSE <<>>)
         \o GatewayQueries(Tail(routes))

\* C9: a resolve_route_gateway_ids call that returns has issued exactly the
\* describe calls its routes ask for; every describe call it issues is for
\* internet gateways; and when one of them raises, the call ends in
\* DirectoryQueryFailed, returning no route list.
C9_OneQueryPerGatewayRoute ==
    ResolveRoutes =>
        /\ outcome.kind = "return" => queries = GatewayQueries(call.routes)
        /\ \A k \in 1..Len(queries) : queries[k].method = "describe_internet_gateways"
        /\ QueryFailed => DirectoryQueryFailed(outcome, fault.error.text)

\* C10: get_aws_resource_ids of the one-element list [n] agrees with
\* get_aws_resource_id of n over the same inventory: [id] when the latter
\* returns an identifier, the empty list when it returns None.
C10_SingletonAgreesWithOne ==
    (ResolveMany /\ QueriesAnswered /\ Len(call.names) = 1) =>
        LET one == GetAwsResourceId(call.names[1], call.resource_type,
                                    DefaultRegion, OK).outcome.value
        IN  outcome = Return(IF one = None THEN <<>> ELSE <<one>>)

====
